---- MODULE Spec2Model ----
(***************************************************************************)
(* Model of run-exps.py: the scheduler loop of main, KLEE.command and      *)
(* KLEE.run (process supervision with a bounded wait and a forced kill),   *)
(* and the comparison strategies (Differ.save_diff and its two variants).  *)
(* The filesystem (output directories, sandbox, diff artifacts) and the    *)
(* child processes are part of the state.                                  *)
(***************************************************************************)
EXTENDS Integers, Sequences, FiniteSets, TLC

\* ------------------------------------------------------------------ bounds
\* Number of scheduler invocations (executions of main) a behaviour may hold.
MaxPasses == 2
\* Clock resolution: the number of clock steps that make up one MAX_TIME.
TicksPerLimit == 1
\* Number of lines the analysis tool writes to its info file / statistics.
MaxLines == 1

\* Largest number of benchmarks left that print_estimated_time_left is given
\* when it is checked on its own.
MaxBenchmarksLeft == 720

\* ------------------------------------------------------- program constants
MAX_TIME == 60
WAIT_UNTIL_KILL_SCALE == 2
NUMBER_OF_COMPARED_KLEES == 2
BENCHMARKS_PATH == "/home/columpio/coreutils/obj-llvm/src"
SANDBOX == "/tmp/sandbox"
KLEE_STATS_DIFF == "klee_stats_diff"
DIFF_EXT == ".patch"
INFO == "info"

KLEE_PATH == "/home/columpio/klee"
MAX_SOLVER_TIME == "15s"
BUILD_FOLDER == "build-mydev"

\* A symbolic-parameter profile; an empty tuple stands for None.
SymArgs(sym_args_list, sym_files, sym_stdin) ==
  [sym_args_list |-> sym_args_list, sym_files |-> sym_files,
   sym_stdin |-> sym_stdin]

\* The default factory of KLEE.SYM_ARGS.
SYM_ARGS_default == SymArgs(<<<<0, 1, 10>>, <<0, 2, 2>>>>, <<1, 8>>, <<8>>)

\* The specific keys of KLEE.SYM_ARGS at class definition.
SYM_ARGS_KEYS ==
  {"dd", "dircolors", "echo", "expr", "mknod", "od", "pathchk", "printf"}

\* KLEE.SYM_ARGS[tool_name]: the specific entry, else the default profile.
SYM_ARGS(tool_name) ==
  CASE tool_name = "dd" -> SymArgs(<<<<0, 3, 10>>>>, <<1, 8>>, <<8>>)
    [] tool_name = "dircolors" -> SymArgs(<<<<0, 3, 10>>>>, <<2, 12>>, <<12>>)
    [] tool_name = "echo" -> SymArgs(<<<<0, 4, 300>>>>, <<2, 30>>, <<30>>)
    [] tool_name = "expr" -> SymArgs(<<<<0, 1, 10>>, <<0, 3, 2>>>>, <<>>, <<>>)
    [] tool_name = "mknod" ->
         SymArgs(<<<<0, 1, 10>>, <<0, 3, 2>>>>, <<1, 8>>, <<8>>)
    [] tool_name = "od" -> SymArgs(<<<<0, 3, 10>>>>, <<2, 12>>, <<12>>)
    [] tool_name = "pathchk" ->
         SymArgs(<<<<0, 1, 2>>, <<0, 1, 300>>>>, <<1, 8>>, <<8>>)
    [] tool_name = "printf" -> SymArgs(<<<<0, 3, 10>>>>, <<2, 12>>, <<12>>)
    [] OTHER -> SYM_ARGS_default

\* ' '.join(map(str, sym_args)) for a triple.
JoinStr(sym_args) ==
  ToString(sym_args[1]) \o " " \o ToString(sym_args[2]) \o " "
    \o ToString(sym_args[3])

\* Mutant: the closing --sym-stdout is only added without --sym-stdin.
argument_list_Mut(self) ==
  [j \in 1..Len(self.sym_args_list) |->
     "--sym-args " \o JoinStr(self.sym_args_list[j])]
  \o (IF self.sym_files # <<>>
      THEN <<"--sym-files " \o ToString(self.sym_files[1]) \o " "
               \o ToString(self.sym_files[2])>>
      ELSE <<>>)
  \o (IF self.sym_stdin # <<>>
      THEN <<"--sym-stdin " \o ToString(self.sym_stdin[1])>>
      ELSE <<"--sym-stdout">>)

\* SymArgs.argument_list.
argument_list(self) ==
  [j \in 1..Len(self.sym_args_list) |->
     "--sym-args " \o JoinStr(self.sym_args_list[j])]
  \o (IF self.sym_files # <<>>
      THEN <<"--sym-files " \o ToString(self.sym_files[1]) \o " "
               \o ToString(self.sym_files[2])>>
      ELSE <<>>)
  \o (IF self.sym_stdin # <<>>
      THEN <<"--sym-stdin " \o ToString(self.sym_stdin[1])>>
      ELSE <<>>)
  \o <<"--sym-stdout">>

\* ------------------------------------------------------------------ corpus
\* os.scandir's result after the filter of main: entries with name and path.
\* "dd" has a specific symbolic-parameter profile, "foo" has none.
BenchmarkNames == <<"dd.bc", "foo.bc">>

PathJoin(a, b) == a \o "/" \o b

benchmarks ==
  [k \in 1..Len(BenchmarkNames) |->
     [name |-> BenchmarkNames[k],
      path |-> PathJoin(BENCHMARKS_PATH, BenchmarkNames[k])]]

benchmarks_len == Len(benchmarks)

\* os.path.splitext(name)[0] for the corpus names (all end in ".bc").
splitext(name) == SubSeq(name, 1, Len(name) - 3)

\* ---------------------------------------------------------- configurations
bd_klee == [name |-> "No___Blacklist", flags |-> <<"--disable-blacklist">>]
my_klee == [name |-> "With_Blacklist", flags |-> <<>>]

\* The k-th configuration run by main and bound to the comparator.
klee(k) == IF k = 1 THEN bd_klee ELSE my_klee

Differs == {"KleeStatsDiffer", "InfoFilesDiffer"}

\* ------------------------------------------------------------------- paths
output_base_dir(benchmark_path) == benchmark_path \o "-klee-out"

\* Mutant: the directory does not depend on the configuration's name.
output_dir_Mut(self, base) == PathJoin(base, "klee-out")

output_dir(self, base) == PathJoin(base, self.name)

OutDirOf(b, k) == output_dir(klee(k), output_base_dir(benchmarks[b].path))

\* KLEE.sym_flags.
sym_flags(benchmark_name) == argument_list(SYM_ARGS(splitext(benchmark_name)))

BINARY_KLEE == PathJoin(PathJoin(PathJoin(KLEE_PATH, BUILD_FOLDER), "bin"), "klee")

\* The list basic_flags of KLEE.command.
basic_flags(out) ==
  <<BINARY_KLEE,
    "--simplify-sym-indices",
    "--max-memory=1000",
    "--optimize",
    "--libc=uclibc",
    "--posix-runtime",
    "--external-calls=all",
    "--only-output-states-covering-new",
    "--env-file=" \o PathJoin(BENCHMARKS_PATH, "test.env"),
    "--run-in-dir=" \o SANDBOX,
    "--max-sym-array-size=4096",
    "--max-solver-time=" \o MAX_SOLVER_TIME,
    "--max-time=" \o ToString(MAX_TIME),
    "--watchdog",
    "--max-static-fork-pct=1",
    "--max-static-solve-pct=1",
    "--max-static-cpfork-pct=1",
    "--switch-type=internal",
    "--output-dir=" \o out>>

\* Mutant: the extra flags follow the benchmark path.
command_Mut(self, benchmark_entry) ==
  basic_flags(output_dir(self, output_base_dir(benchmark_entry.path)))
    \o <<benchmark_entry.path>> \o self.flags
    \o sym_flags(benchmark_entry.name)

\* The value KLEE.command returns.
command(self, benchmark_entry) ==
  basic_flags(output_dir(self, output_base_dir(benchmark_entry.path)))
    \o self.flags \o <<benchmark_entry.path>>
    \o sym_flags(benchmark_entry.name)

\* The name (without extension) of the artifact a strategy writes.
info_out(d, base) ==
  IF d = "InfoFilesDiffer" THEN PathJoin(base, INFO)
                           ELSE PathJoin(base, KLEE_STATS_DIFF)

ArtifactPath(d, b) == info_out(d, output_base_dir(benchmarks[b].path)) \o DIFF_EXT

\* The path whose existence main tests to skip a benchmark.
MarkerPath(b) ==
  PathJoin(output_base_dir(benchmarks[b].path), KLEE_STATS_DIFF \o DIFF_EXT)

BenchIdx == 1..benchmarks_len
OutDirPaths == {OutDirOf(b, k) : b \in BenchIdx, k \in 1..2}
FilePaths == {ArtifactPath(d, b) : d \in Differs, b \in BenchIdx}
                \cup {MarkerPath(b) : b \in BenchIdx}

\* ------------------------------------------------------- filesystem values
NoFile == [exists |-> FALSE, lines |-> <<>>]
File(ls) == [exists |-> TRUE, lines |-> ls]
NoDir == [exists |-> FALSE, info |-> NoFile, stats |-> <<>>]
EmptyDir == [exists |-> TRUE, info |-> NoFile, stats |-> <<>>]
NoSandbox == [exists |-> FALSE, files |-> {}]
EmptySandbox == [exists |-> TRUE, files |-> {}]

Min(a, b) == IF a < b THEN a ELSE b

VARIABLES
  pc,        \* position of the harness: idle, loop, command, popen, wait,
             \* killwait, compare, open, write, done, crashed
  pass,      \* number of executions of main started so far
  i,         \* 1-based loop index of main (enumerate's i is i - 1)
  cfg,       \* which configuration's run is in progress (1 or 2)
  differ,    \* the comparison strategy bound to the ResultComparator
  dirs,      \* configuration output directories
  files,     \* diff artifacts in the base output directories
  basedirs,  \* the base output directories that exist
  sandbox,   \* KLEE.SANDBOX
  sym_args,  \* the key set of KLEE.SYM_ARGS
  children,  \* child processes launched by Popen that have not exited
  elapsed,   \* seconds since the current child was launched
  originals, \* the value read_originals returned, inside Differ.save_diff
  printed,   \* the two times print_estimated_time_left last printed
  returncode, \* proc.returncode of the last run, None while it runs
  commands, \* the token list KLEE.command returned, per configuration
  benchmarks_left, \* the argument of the last print_estimated_time_left
  hist       \* history of the current pass, kept for the properties only

vars == <<pc, pass, i, cfg, differ, dirs, files, basedirs, sandbox, sym_args,
          children, elapsed, originals, printed, returncode,
          commands,
          benchmarks_left, hist>>

\* proc.returncode: None until the child has been reaped, the exit status of
\* a child that exited on its own, -SIGKILL after proc.kill().
None == [reaped |-> FALSE, code |-> 0]
Exited(code) == [reaped |-> TRUE, code |-> code]
SIGKILLED == Exited(-9)
ExitCodes == {0, 1}

NothingPrinted == [estimated |-> "", max |-> ""]

NoCommands == [k \in {1, 2} |-> <<>>]

NoOriginals == [read |-> FALSE, l1 |-> <<>>, l2 |-> <<>>,
                from |-> "", to |-> "", out |-> ""]

\* History of one pass: launches and comparisons per benchmark, what the loop
\* found at each benchmark, the kill of the current run, why main aborted.
NoKill == [n |-> 0, t |-> 0, alive |-> TRUE]
NoSeen == [reached |-> FALSE, skipped |-> FALSE, art |-> NoFile]
InitHist ==
  [launched |-> [b \in BenchIdx |-> 0],
   compared |-> [b \in BenchIdx |-> 0],
   seen     |-> [b \in BenchIdx |-> NoSeen],
   started  |-> {},
   returned |-> {},
   killed   |-> {},
   kill     |-> NoKill,
   stale    |-> [outdir |-> FALSE, sandbox |-> FALSE],
   written  |-> [b \in BenchIdx |->
                  [runs |-> {}, read |-> FALSE, same |-> FALSE]],
   doneIn   |-> [b \in BenchIdx |-> 0],
   abort    |-> "none"]


\* The state before main is first run, for a given comparison strategy.
InitWith(ds) ==
  /\ pc = "idle"
  /\ pass = 0
  /\ i = 1
  /\ cfg = 1
  /\ differ \in ds
  /\ dirs = [p \in OutDirPaths |-> NoDir]
  /\ files = [p \in FilePaths |-> NoFile]
  /\ basedirs = {}
  /\ sandbox = NoSandbox
  /\ sym_args = SYM_ARGS_KEYS
  /\ children = {}
  /\ elapsed = 0
  /\ originals = NoOriginals
  /\ printed = NothingPrinted
  /\ returncode = None
  /\ commands = NoCommands
  /\ benchmarks_left = 0
  /\ hist = InitHist

\* main binds KleeStatsDiffer to the ResultComparator.
Init == InitWith({"KleeStatsDiffer"})

\* The scheduler with either strategy bound to the ResultComparator.
InitAnyDiffer == InitWith(Differs)

\* --------------------------------------------------------- pure operators
\* Mutant: the skip test looks at another file of the base directory.
has_both_solutions_Mut(b) ==
  files[PathJoin(output_base_dir(benchmarks[b].path), INFO \o DIFF_EXT)].exists

has_both_solutions(b) == files[MarkerPath(b)].exists

\* strftime's %H, %M, %S: two digits, zero padded.
Pad2(n) == IF n < 10 THEN "0" \o ToString(n) ELSE ToString(n)

\* human_readable_time: the time of day of datetime.min + timedelta(seconds),
\* formatted; the days of the sum are not printed.
human_readable_time(seconds) ==
  Pad2((seconds \div 3600) % 24) \o " hours, "
    \o Pad2((seconds \div 60) % 60) \o " minutes, "
    \o Pad2(seconds % 60) \o " seconds"

\* print_estimated_time_left: the two times of the message it prints.
print_estimated_time_left(left) ==
  LET estimated_time_left == left * MAX_TIME * NUMBER_OF_COMPARED_KLEES
      max_time_left == estimated_time_left * WAIT_UNTIL_KILL_SCALE
  IN  [estimated |-> human_readable_time(estimated_time_left),
       max |-> human_readable_time(max_time_left)]

\* KLEE.sym_flags looks the tool name up in the defaultdict SYM_ARGS: a key
\* that is missing is inserted with the default profile.
sym_flags_lookup(table, benchmark_name) == table \cup {splitext(benchmark_name)}

\* os.makedirs(output_dir, exist_ok=True) then shutil.rmtree(output_dir).
makedirs_exist_ok(ds, out) ==
  [ds EXCEPT ![out] = IF @.exists THEN @ ELSE EmptyDir]

\* Mutant: the directory is created and never removed.
ResetOutputDir_Mut(ds, out) == makedirs_exist_ok(ds, out)

ResetOutputDir(ds, out) == [makedirs_exist_ok(ds, out) EXCEPT ![out] = NoDir]

\* shutil.rmtree(SANDBOX, ignore_errors=True) then os.makedirs(SANDBOX), when
\* both succeed.
\* Mutant: makedirs(SANDBOX, exist_ok=True) without the removal.
ResetSandbox_Mut(s) == IF s.exists THEN s ELSE EmptySandbox

ResetSandbox(s) == EmptySandbox

\* Mutant: the scale divides the limit.
WaitTimeout_Mut == MAX_TIME \div WAIT_UNTIL_KILL_SCALE

\* The timeout of proc.wait in KLEE.run.
WaitTimeout == MAX_TIME * WAIT_UNTIL_KILL_SCALE

Quantum == MAX_TIME \div TicksPerLimit

\* The Popen object of the run in progress.
Proc == <<i, cfg>>

Tags(cs) == {c.tag : c \in cs}

\* proc.wait(timeout=...) returns normally once the child has exited.
wait_timeout_returns(proc) == proc \notin Tags(children)

\* Mutant: run returns right after proc.kill().
wait_returns_Mut(proc) == TRUE

\* proc.wait() after proc.kill() returns once the child has exited.
wait_returns(proc) == proc \notin Tags(children)

\* Mutant: the comparison follows the first run.
AfterRun_Mut(k) == [pc |-> "compare", cfg |-> k]

\* The body of main's loop after the skip test: run, run, save_diff.
AfterRun(k) ==
  IF k = 1 THEN [pc |-> "command", cfg |-> 2]
           ELSE [pc |-> "compare", cfg |-> k]

\* Mutant: a nonzero exit status raises, as subprocess.check_call does.
RunReturn_Mut(k, code) ==
  IF code = 0 THEN AfterRun(k) ELSE [pc |-> "crashed", cfg |-> k]

\* proc.wait(timeout=...) returned the exit status: run drops it, logs and
\* returns to main.
RunReturn(k, code) == AfterRun(k)

\* ------------------------------------------------------- the analysis tool
InfoLine(k, j) == klee(k).name \o " info " \o ToString(j)
StatsLine(k, j) == klee(k).name \o " stats " \o ToString(j)

\* One step of the tool's output: it creates its output directory, creates
\* the info file, then writes lines of info and of statistics.
ToolStep(d, k) ==
  IF ~d.exists THEN EmptyDir
  ELSE IF ~d.info.exists THEN [d EXCEPT !.info = File(<<>>)]
  ELSE [d EXCEPT !.info = File(Append(@.lines, InfoLine(k, Len(@.lines) + 1))),
                 !.stats = Append(@, StatsLine(k, Len(@) + 1))]

ToolCanStep(d) == ~d.exists \/ ~d.info.exists \/ Len(d.info.lines) < MaxLines


\* --------------------------------------------------------------- main loop
Idle == pc \in {"idle", "done", "crashed"}

\* A new execution of main: the process state is fresh, the filesystem stays.
StartPass ==
  /\ Idle
  /\ pass < MaxPasses
  /\ pass' = pass + 1
  /\ i' = 1
  /\ cfg' = 1
  /\ pc' = "loop"
  /\ sym_args' = SYM_ARGS_KEYS
  /\ elapsed' = 0
  /\ originals' = NoOriginals
  /\ printed' = NothingPrinted
  /\ hist' = [InitHist EXCEPT !.written = hist.written, !.doneIn = hist.doneIn]
  /\ returncode' = None
  /\ commands' = NoCommands
  /\ benchmarks_left' = 0
  /\ UNCHANGED <<differ, dirs, files, basedirs, sandbox, children>>

\* Mutant: the loop stops one benchmark early.
LoopExit_Mut ==
  /\ pc = "loop"
  /\ i >= benchmarks_len
  /\ pc' = "done"
  /\ UNCHANGED <<pass, i, cfg, differ, dirs, files, basedirs, sandbox,
                 sym_args, children, elapsed, originals, printed, hist,
                 returncode, commands, benchmarks_left>>

\* The loop is exhausted: LOGGER.close().
LoopExit ==
  /\ pc = "loop"
  /\ i > benchmarks_len
  /\ pc' = "done"
  /\ UNCHANGED <<pass, i, cfg, differ, dirs, files, basedirs, sandbox,
                 sym_args, children, elapsed, originals, printed, hist,
                 returncode, commands, benchmarks_left>>

\* if has_both_solutions(benchmark): continue
LoopSkip ==
  /\ pc = "loop"
  /\ i <= benchmarks_len
  /\ has_both_solutions(i)
  /\ i' = i + 1
  /\ hist' = [hist EXCEPT !.seen[i] =
                [reached |-> TRUE, skipped |-> TRUE,
                 art |-> files[ArtifactPath(differ, i)]]]
  /\ UNCHANGED <<pc, pass, cfg, differ, dirs, files, basedirs, sandbox,
                 sym_args, children, elapsed, originals, printed, returncode,
                 commands, benchmarks_left>>

\* print_estimated_time_left(benchmarks_len - i), then the first run.
LoopBegin ==
  /\ pc = "loop"
  /\ i <= benchmarks_len
  /\ ~has_both_solutions(i)
  /\ printed' = print_estimated_time_left(benchmarks_len - (i - 1))
  /\ benchmarks_left' = benchmarks_len - (i - 1)
  /\ cfg' = 1
  /\ pc' = "command"
  /\ hist' = [hist EXCEPT !.seen[i] =
                [reached |-> TRUE, skipped |-> FALSE,
                 art |-> files[ArtifactPath(differ, i)]],
              !.started = {}, !.returned = {}, !.killed = {}]
  /\ commands' = NoCommands
  /\ UNCHANGED <<pass, i, differ, dirs, files, basedirs, sandbox, sym_args,
                 children, elapsed, originals, returncode>>

\* ------------------------------------------------------------ KLEE.command
\* Every filesystem step succeeds and the token list is built.
Command ==
  /\ pc = "command"
  /\ LET out == OutDirOf(i, cfg)
     IN  /\ dirs' = ResetOutputDir(dirs, out)
         /\ basedirs' = basedirs \cup {output_base_dir(benchmarks[i].path)}
         /\ sandbox' = ResetSandbox(sandbox)
         /\ sym_args' = sym_flags_lookup(sym_args, benchmarks[i].name)
         /\ hist' = [hist EXCEPT !.stale =
                       [outdir |-> dirs[out].info.exists,
                        sandbox |-> sandbox.files # {}]]
  /\ pc' = "popen"
  /\ returncode' = None
  /\ commands' = [commands EXCEPT ![cfg] = command(klee(cfg), benchmarks[i])]
  /\ UNCHANGED <<pass, i, cfg, differ, files, children, elapsed, originals,
                 printed, benchmarks_left>>

SetupFailures == {"makedirs", "rmtree", "rmtree_sandbox", "makedirs_sandbox"}

\* Mutant: the exception is caught inside command and the run goes on.
CommandFails_Mut ==
  /\ pc = "command"
  /\ \E f \in SetupFailures :
       LET out == OutDirOf(i, cfg)
           base == output_base_dir(benchmarks[i].path)
       IN  /\ f = "rmtree_sandbox" => sandbox.exists
           /\ dirs' = CASE f = "makedirs" -> dirs
                        [] f = "rmtree" -> makedirs_exist_ok(dirs, out)
                        [] OTHER -> ResetOutputDir(dirs, out)
           /\ basedirs' = IF f = "makedirs" THEN basedirs
                                            ELSE basedirs \cup {base}
           /\ sandbox' = IF f = "makedirs_sandbox" THEN NoSandbox ELSE sandbox
  /\ pc' = "popen"
  /\ hist' = [hist EXCEPT !.abort = "setup"]
  /\ returncode' = None
  /\ UNCHANGED <<pass, i, cfg, differ, files, sym_args, children, elapsed,
                 originals, printed, commands, benchmarks_left>>

\* One filesystem step raises: the exception leaves main.
\*   makedirs          os.makedirs(output_dir, exist_ok=True) raises
\*   rmtree            shutil.rmtree(output_dir) raises, the directory stays
\*   rmtree_sandbox    rmtree(SANDBOX, ignore_errors=True) removes nothing,
\*                     so that os.makedirs(SANDBOX) raises FileExistsError
\*   makedirs_sandbox  os.makedirs(SANDBOX) raises after the removal
CommandFails ==
  /\ pc = "command"
  /\ \E f \in SetupFailures :
       LET out == OutDirOf(i, cfg)
           base == output_base_dir(benchmarks[i].path)
       IN  /\ f = "rmtree_sandbox" => sandbox.exists
           /\ dirs' = CASE f = "makedirs" -> dirs
                        [] f = "rmtree" -> makedirs_exist_ok(dirs, out)
                        [] OTHER -> ResetOutputDir(dirs, out)
           /\ basedirs' = IF f = "makedirs" THEN basedirs
                                            ELSE basedirs \cup {base}
           /\ sandbox' = IF f = "makedirs_sandbox" THEN NoSandbox ELSE sandbox
  /\ pc' = "crashed"
  /\ hist' = [hist EXCEPT !.abort = "setup"]
  /\ returncode' = None
  /\ UNCHANGED <<pass, i, cfg, differ, files, sym_args, children, elapsed,
                 originals, printed, commands, benchmarks_left>>

\* ---------------------------------------------------------------- KLEE.run
\* subprocess.Popen(command, shell=True, ...)
Popen ==
  /\ pc = "popen"
  /\ children' = children \cup {[tag |-> Proc, st |-> "alive"]}
  /\ elapsed' = 0
  /\ pc' = "wait"
  /\ hist' = [hist EXCEPT !.launched[i] = @ + 1,
                          !.started = @ \cup {cfg},
                          !.stale = InitHist.stale]
  /\ returncode' = None
  /\ UNCHANGED <<pass, i, cfg, differ, dirs, files, basedirs, sandbox,
                 sym_args, originals, printed, commands, benchmarks_left>>

\* Time passes while proc.wait(timeout) blocks; it wakes at the deadline.
Tick ==
  /\ pc = "wait"
  /\ ~wait_timeout_returns(Proc)
  /\ elapsed < WaitTimeout
  /\ elapsed' = Min(elapsed + Quantum, WaitTimeout)
  /\ UNCHANGED <<pc, pass, i, cfg, differ, dirs, files, basedirs, sandbox,
                 sym_args, children, originals, printed, hist, returncode,
                 commands, benchmarks_left>>

\* proc.wait returned within the timeout: log, and run returns.
WaitFinished ==
  /\ pc = "wait"
  /\ wait_timeout_returns(Proc)
  /\ pc' = RunReturn(cfg, returncode.code).pc
  /\ cfg' = RunReturn(cfg, returncode.code).cfg
  /\ elapsed' = 0
  /\ hist' = [hist EXCEPT !.returned = @ \cup {cfg}, !.kill = NoKill]
  /\ UNCHANGED <<pass, i, differ, dirs, files, basedirs, sandbox, sym_args,
                 children, originals, printed, returncode, commands,
                 benchmarks_left>>

\* subprocess.TimeoutExpired: log, then proc.kill().
TimeoutKill ==
  /\ pc = "wait"
  /\ ~wait_timeout_returns(Proc)
  /\ elapsed >= WaitTimeout
  /\ children' = {IF c.tag = Proc THEN [c EXCEPT !.st = "killed"] ELSE c :
                    c \in children}
  /\ pc' = "killwait"
  /\ hist' = [hist EXCEPT !.kill = [n |-> @.n + 1, t |-> elapsed,
                                    alive |-> Proc \in Tags(children)],
                          !.killed = @ \cup {cfg}]
  /\ UNCHANGED <<pass, i, cfg, differ, dirs, files, basedirs, sandbox,
                 sym_args, elapsed, originals, printed, returncode, commands,
                 benchmarks_left>>

\* proc.wait() after the kill returned, and run returns.
KillWaitReturn ==
  /\ pc = "killwait"
  /\ wait_returns(Proc)
  /\ pc' = AfterRun(cfg).pc
  /\ cfg' = AfterRun(cfg).cfg
  /\ elapsed' = 0
  /\ hist' = [hist EXCEPT !.returned = @ \cup {cfg}, !.kill = NoKill]
  /\ UNCHANGED <<pass, i, differ, dirs, files, basedirs, sandbox, sym_args,
                 children, originals, printed, returncode, commands,
                 benchmarks_left>>

\* ------------------------------------------------------- the child process
\* The tool writes to the directory its --output-dir flag names.
ChildWrite(c) ==
  /\ c.st = "alive"
  /\ LET out == OutDirOf(c.tag[1], c.tag[2])
     IN  /\ ToolCanStep(dirs[out])
         /\ dirs' = [dirs EXCEPT ![out] = ToolStep(@, c.tag[2])]
  /\ UNCHANGED <<pc, pass, i, cfg, differ, files, basedirs, sandbox, sym_args,
                 children, elapsed, originals, printed, hist, returncode,
                 commands, benchmarks_left>>

\* The tool leaves a file in its working directory (--run-in-dir).
ChildWriteSandbox(c) ==
  /\ c.st = "alive"
  /\ sandbox.exists
  /\ "run" \notin sandbox.files
  /\ sandbox' = [sandbox EXCEPT !.files = @ \cup {"run"}]
  /\ UNCHANGED <<pc, pass, i, cfg, differ, dirs, files, basedirs, sym_args,
                 children, elapsed, originals, printed, hist, returncode,
                 commands, benchmarks_left>>

\* The child exits on its own, with any exit status.
ChildExit(c) ==
  /\ c.st = "alive"
  /\ children' = children \ {c}
  /\ \E code \in ExitCodes : returncode' = Exited(code)
  /\ UNCHANGED <<pc, pass, i, cfg, differ, dirs, files, basedirs, sandbox,
                 sym_args, elapsed, originals, printed, hist, commands,
                 benchmarks_left>>

\* A child that was sent SIGKILL exits.
ChildDie(c) ==
  /\ c.st = "killed"
  /\ children' = children \ {c}
  /\ returncode' = SIGKILLED
  /\ UNCHANGED <<pc, pass, i, cfg, differ, dirs, files, basedirs, sandbox,
                 sym_args, elapsed, originals, printed, hist, commands,
                 benchmarks_left>>


\* ----------------------------------------------------------- the comparison
\* Length of the longest common prefix of two line sequences.
CommonPrefix(a, b) ==
  LET ks == {k \in 0..Min(Len(a), Len(b)) :
               \A j \in 1..k : a[j] = b[j]}
  IN  CHOOSE k \in ks : \A m \in ks : m <= k

\* Length of the longest common suffix that does not overlap the prefix p.
CommonSuffix(a, b, p) ==
  LET ks == {k \in 0..(Min(Len(a), Len(b)) - p) :
               \A j \in 0..(k - 1) : a[Len(a) - j] = b[Len(b) - j]}
  IN  CHOOSE k \in ks : \A m \in ks : m <= k

\* difflib's _format_range_unified(start, stop).
format_range_unified(start, stop) ==
  LET length == stop - start
      beginning == start + 1
  IN  IF length = 1 THEN ToString(beginning)
      ELSE ToString(IF length = 0 THEN beginning - 1 ELSE beginning)
             \o "," \o ToString(length)

Mark(m, ls) == [j \in 1..Len(ls) |-> m \o ls[j]]

\* difflib.unified_diff(a, b, fromfile, tofile, n=3) for sequences short
\* enough to fall in one hunk, whose differing middles share no line: nothing
\* for equal sequences, else the two header lines and the hunk.
unified_diff(a, b, fromfile, tofile) ==
  IF a = b THEN <<>>
  ELSE LET p == CommonPrefix(a, b)
           q == CommonSuffix(a, b, p)
       IN  <<"--- " \o fromfile, "+++ " \o tofile,
             "@@ -" \o format_range_unified(0, Len(a)) \o " +"
                    \o format_range_unified(0, Len(b)) \o " @@">>
           \o Mark(" ", SubSeq(a, 1, p))
           \o Mark("-", SubSeq(a, p + 1, Len(a) - q))
           \o Mark("+", SubSeq(b, p + 1, Len(b) - q))
           \o Mark(" ", SubSeq(a, Len(a) - q + 1, Len(a)))

\* What the statistics tool does when KleeStatsDiffer calls it:
\*   ok      it prints the statistics of the directory
\*   fail    it exits with an error and prints nothing on stdout
\*   noexec  it cannot be executed: subprocess.run raises
StatsOutcomes == {"ok", "fail", "noexec"}

\* KleeStatsDiffer.call_klee_stats_on: the captured stdout, split in lines.
call_klee_stats_on(path, outcome) ==
  IF outcome = "ok" /\ dirs[path].exists THEN dirs[path].stats ELSE <<>>

\* InfoFilesDiffer.read_originals; open() raises when an info file is missing.
InfoReadable(out1, out2) == dirs[out1].info.exists /\ dirs[out2].info.exists

read_originals_info(base, out1, out2) ==
  [read |-> TRUE,
   l1 |-> dirs[out1].info.lines,
   l2 |-> dirs[out2].info.lines,
   from |-> PathJoin(out1, INFO),
   to |-> PathJoin(out2, INFO),
   out |-> info_out("InfoFilesDiffer", base)]

\* KleeStatsDiffer.read_originals.
read_originals_stats(base, out1, out2, o1, o2) ==
  [read |-> TRUE,
   l1 |-> call_klee_stats_on(out1, o1),
   l2 |-> call_klee_stats_on(out2, o2),
   from |-> "klee-stats " \o out1,
   to |-> "klee-stats " \o out2,
   out |-> info_out("KleeStatsDiffer", base)]

\* Mutant: save_diff opens the artifact before it calls read_originals.
ReadOriginals_Mut ==
  /\ pc = "compare"
  /\ differ = "KleeStatsDiffer"
  /\ LET base == output_base_dir(benchmarks[i].path)
     IN  /\ originals' = read_originals_stats(base, output_dir(klee(1), base),
                                              output_dir(klee(2), base),
                                              "ok", "ok")
         /\ files' = [files EXCEPT ![ArtifactPath(differ, i)] = File(<<>>)]
  /\ pc' = "open"
  /\ hist' = [hist EXCEPT !.compared[i] = @ + 1]
  /\ returncode' = None
  /\ UNCHANGED <<pass, i, cfg, differ, dirs, basedirs, sandbox, sym_args,
                 children, elapsed, printed, commands, benchmarks_left>>

\* ResultComparator.save_diff up to the return of read_originals.
ReadOriginals ==
  /\ pc = "compare"
  /\ LET base == output_base_dir(benchmarks[i].path)
         out1 == output_dir(klee(1), base)
         out2 == output_dir(klee(2), base)
     IN  IF differ = "InfoFilesDiffer"
         THEN /\ InfoReadable(out1, out2)
              /\ originals' = read_originals_info(base, out1, out2)
         ELSE \E o1, o2 \in StatsOutcomes \ {"noexec"} :
                originals' = read_originals_stats(base, out1, out2, o1, o2)
  /\ pc' = "open"
  /\ hist' = [hist EXCEPT !.compared[i] = @ + 1]
  /\ returncode' = None
  /\ UNCHANGED <<pass, i, cfg, differ, dirs, files, basedirs, sandbox,
                 sym_args, children, elapsed, printed, commands,
                 benchmarks_left>>

\* read_originals raises: an info file is missing, or the statistics tool
\* cannot be executed. The exception leaves main.
ReadOriginalsFails ==
  /\ pc = "compare"
  /\ LET base == output_base_dir(benchmarks[i].path)
     IN  differ = "InfoFilesDiffer" =>
           ~InfoReadable(output_dir(klee(1), base), output_dir(klee(2), base))
  /\ pc' = "crashed"
  /\ hist' = [hist EXCEPT !.compared[i] = @ + 1,
                          !.abort = IF differ = "InfoFilesDiffer"
                                    THEN "read_originals" ELSE "stats_exec"]
  /\ returncode' = None
  /\ UNCHANGED <<pass, i, cfg, differ, dirs, files, basedirs, sandbox,
                 sym_args, children, elapsed, originals, printed, commands,
                 benchmarks_left>>

\* Differ.save_diff: open(info_out + DIFF_EXT, 'w') creates or truncates.
OpenArtifact ==
  /\ pc = "open"
  /\ files' = [files EXCEPT ![originals.out \o DIFF_EXT] = File(<<>>)]
  /\ pc' = "write"
  /\ hist' = [hist EXCEPT !.written[i] =
                [runs |-> hist.returned, read |-> originals.read,
                 same |-> FALSE]]
  /\ UNCHANGED <<pass, i, cfg, differ, dirs, basedirs, sandbox, sym_args,
                 children, elapsed, originals, printed, returncode, commands,
                 benchmarks_left>>

\* Mutant: an empty diff is not kept, its file is removed.
WriteArtifact_Mut ==
  /\ pc = "write"
  /\ files' = [files EXCEPT ![originals.out \o DIFF_EXT] =
                 IF originals.l1 = originals.l2
                 THEN NoFile
                 ELSE File(unified_diff(originals.l1, originals.l2,
                                        originals.from, originals.to))]
  /\ originals' = NoOriginals
  /\ i' = i + 1
  /\ cfg' = 1
  /\ pc' = "loop"
  /\ hist' = [hist EXCEPT !.doneIn[i] = pass,
                          !.written[i].same = (originals.l1 = originals.l2),
                          !.started = {}, !.returned = {}, !.killed = {}]
  /\ commands' = NoCommands
  /\ UNCHANGED <<pass, differ, dirs, basedirs, sandbox, sym_args, children,
                 elapsed, printed, returncode, benchmarks_left>>

\* Differ.save_diff: out.writelines(diff), the file is closed, and the loop
\* goes to the next benchmark.
WriteArtifact ==
  /\ pc = "write"
  /\ files' = [files EXCEPT ![originals.out \o DIFF_EXT] =
                 File(unified_diff(originals.l1, originals.l2,
                                   originals.from, originals.to))]
  /\ originals' = NoOriginals
  /\ i' = i + 1
  /\ cfg' = 1
  /\ pc' = "loop"
  /\ hist' = [hist EXCEPT !.doneIn[i] = pass,
                          !.written[i].same = (originals.l1 = originals.l2),
                          !.started = {}, !.returned = {}, !.killed = {}]
  /\ commands' = NoCommands
  /\ UNCHANGED <<pass, differ, dirs, basedirs, sandbox, sym_args, children,
                 elapsed, printed, returncode, benchmarks_left>>

\* ------------------------------------------------------------------ aborts
Running == pc \notin {"idle", "done", "crashed"}

\* main stops at any point: a signal, an I/O error (the disk is full while
\* the artifact is written), the machine going down. No handler catches it;
\* the signal reaches the child process as well. The memory of the process
\* is gone, the filesystem stays as it is.
Crash ==
  /\ Running
  /\ pc' = "crashed"
  /\ children' = {}
  /\ i' = 1
  /\ cfg' = 1
  /\ elapsed' = 0
  /\ originals' = NoOriginals
  /\ printed' = NothingPrinted
  /\ sym_args' = SYM_ARGS_KEYS
  /\ hist' = [hist EXCEPT !.abort = "external", !.kill = NoKill,
                          !.stale = InitHist.stale]
  /\ returncode' = None
  /\ commands' = NoCommands
  /\ benchmarks_left' = 0
  /\ UNCHANGED <<pass, differ, dirs, files, basedirs, sandbox>>

Next ==
  \/ StartPass
  \/ LoopExit
  \/ LoopSkip
  \/ LoopBegin
  \/ Command
  \/ CommandFails
  \/ Popen
  \/ Tick
  \/ WaitFinished
  \/ TimeoutKill
  \/ KillWaitReturn
  \/ \E c \in children : ChildWrite(c)
  \/ \E c \in children : ChildWriteSandbox(c)
  \/ \E c \in children : ChildExit(c)
  \/ \E c \in children : ChildDie(c)
  \/ ReadOriginals
  \/ ReadOriginalsFails
  \/ OpenArtifact
  \/ WriteArtifact
  \/ Crash

\* main as written.
Spec == Init /\ [][Next]_vars

\* The steps main takes by itself when nothing raises: each is taken once it
\* stays possible (the interpreter runs, the clock advances).
Progress ==
  \/ LoopExit
  \/ LoopSkip
  \/ LoopBegin
  \/ Command
  \/ Popen
  \/ Tick
  \/ WaitFinished
  \/ TimeoutKill
  \/ KillWaitReturn
  \/ ReadOriginals
  \/ OpenArtifact
  \/ WriteArtifact

\* A child that was sent SIGKILL exits.
KilledChildExits == \E c \in children : ChildDie(c)

\* main as written, scheduled: main makes progress and a killed child exits.
\* A child left alone may run for ever, and a fatal error may happen or not.
FairSpec == Spec /\ WF_vars(Progress) /\ WF_vars(KilledChildExits)

\* The scheduler with either comparison strategy.
SpecAnyDiffer == InitAnyDiffer /\ [][Next]_vars

\* print_estimated_time_left on its own, for any number of benchmarks left
\* that a corpus can give.
InitEstimate ==
  /\ pc = "estimate"
  /\ pass = 0
  /\ i = 1
  /\ cfg = 1
  /\ differ = "KleeStatsDiffer"
  /\ dirs = [p \in OutDirPaths |-> NoDir]
  /\ files = [p \in FilePaths |-> NoFile]
  /\ basedirs = {}
  /\ sandbox = NoSandbox
  /\ sym_args = SYM_ARGS_KEYS
  /\ children = {}
  /\ elapsed = 0
  /\ originals = NoOriginals
  /\ printed = NothingPrinted
  /\ returncode = None
  /\ commands = NoCommands
  /\ benchmarks_left \in 1..MaxBenchmarksLeft
  /\ hist = InitHist

Estimate ==
  /\ pc = "estimate"
  /\ printed' = print_estimated_time_left(benchmarks_left)
  /\ pc' = "estimated"
  /\ UNCHANGED <<pass, i, cfg, differ, dirs, files, basedirs, sandbox,
                 sym_args, children, elapsed, originals, returncode, commands,
                 benchmarks_left, hist>>

SpecEstimate == InitEstimate /\ [][Estimate]_vars


\* ================================================================== claims
Live == Tags(children)

\* C1: a benchmark whose diff artifact exists when the loop of main reaches
\* it is skipped: in that pass no tool is launched for it, no comparison is
\* made, and the artifact stays as it was.
C1_SkipExisting ==
  \A b \in BenchIdx :
    (hist.seen[b].reached /\ hist.seen[b].art.exists) =>
      /\ hist.seen[b].skipped
      /\ hist.launched[b] = 0
      /\ hist.compared[b] = 0
      /\ files[ArtifactPath(differ, b)] = hist.seen[b].art

\* A second pass has gone through the whole corpus and skipped every
\* benchmark, the first one having a non-empty diff.
C1_Witness ==
  /\ pass = 2
  /\ pc = "done"
  /\ \A b \in BenchIdx : hist.seen[b].skipped /\ hist.launched[b] = 0
  /\ files[ArtifactPath(differ, 1)].lines # <<>>

\* C2: for every strategy, a benchmark whose comparison completed in an
\* earlier pass has its artifact, and a later pass launches no tool for it
\* (the path tested by the skip is the path the strategy writes).
C2_MarkerIsArtifact ==
  \A b \in BenchIdx :
    (hist.doneIn[b] # 0 /\ hist.doneIn[b] < pass) =>
      /\ files[ArtifactPath(differ, b)].exists
      /\ hist.launched[b] = 0

\* C3: the second run starts only after the first run's child has exited
\* and run has returned; the comparison starts only after both runs have;
\* the loop is past a benchmark only if it was skipped or compared.
C3_Ordering ==
  /\ 2 \in hist.started => (1 \in hist.returned /\ <<i, 1>> \notin Live)
  /\ pc \in {"compare", "open", "write"} =>
       /\ hist.started = {1, 2}
       /\ hist.returned = {1, 2}
       /\ <<i, 1>> \notin Live /\ <<i, 2>> \notin Live
  /\ pc \in {"loop", "command", "popen", "wait", "killwait", "compare",
             "open", "write", "done"} =>
       \A b \in BenchIdx :
         b < i => (hist.seen[b].skipped \/ hist.doneIn[b] = pass)

\* The comparison of the second benchmark is being written after the first
\* benchmark was compared in the same pass.
C3_Witness ==
  /\ pc = "write"
  /\ i = 2
  /\ hist.doneIn[1] = pass
  /\ hist.returned = {1, 2}

C5_Escalation ==
  /\ hist.kill.n <= 1
  /\ hist.kill.n = 1 =>
       /\ hist.kill.alive
       /\ MAX_TIME <= hist.kill.t
       /\ hist.kill.t <= MAX_TIME * WAIT_UNTIL_KILL_SCALE
  /\ pc = "wait" => (hist.kill.n = 0
                       /\ elapsed <= MAX_TIME * WAIT_UNTIL_KILL_SCALE)
  /\ pc = "killwait" => hist.kill.n = 1
  /\ Running => \A k \in hist.killed \cap hist.returned : <<i, k>> \notin Live

\* A child that did not exit was killed at the deadline and has now exited:
\* run is about to return.
C5_Witness ==
  /\ pc = "killwait"
  /\ hist.kill.n = 1
  /\ hist.kill.t = MAX_TIME * WAIT_UNTIL_KILL_SCALE
  /\ Proc \notin Live

\* C6: when a child is launched the sandbox exists and is empty, and no
\* earlier child is alive.
C6_SandboxIsolation ==
  pc = "popen" => (sandbox = EmptySandbox /\ children = {})

\* A child is about to be launched, and the run before it had left a file
\* in the sandbox.
C6_Witness ==
  /\ pc = "popen"
  /\ hist.stale.sandbox
  /\ sandbox = EmptySandbox

\* C7, as claimed: when the child is launched the configuration's output
\* directory exists and is empty.
C7_OutputDirExistsEmpty ==
  pc = "popen" => dirs[OutDirOf(i, cfg)] = EmptyDir

\* C7, amended: when the child is launched the configuration's output
\* directory does not exist (nothing of an earlier run is left) and the
\* base output directory exists.
C7_OutputDirRemoved ==
  pc = "popen" =>
    /\ dirs[OutDirOf(i, cfg)] = NoDir
    /\ output_base_dir(benchmarks[i].path) \in basedirs

\* A child is about to be launched for a configuration whose output
\* directory held an info file of an earlier run.
C7_Witness ==
  /\ pc = "popen"
  /\ hist.stale.outdir
  /\ dirs[OutDirOf(i, cfg)] = NoDir

\* C8: an artifact that exists was opened when both runs of its benchmark
\* had returned and read_originals had returned both line sequences.
C8_ArtifactAfterRuns ==
  \A b \in BenchIdx :
    files[ArtifactPath(differ, b)].exists =>
      /\ hist.written[b].runs = {1, 2}
      /\ hist.written[b].read

\* The artifact of the first benchmark has been opened, and not yet written.
C8_Witness ==
  /\ pc = "write"
  /\ i = 1
  /\ files[ArtifactPath(differ, 1)].exists
  /\ hist.killed = {1, 2}

\* C9: the file at the marker path exists only for a benchmark whose
\* comparison has completely written it.
C9_NoPartialMarker ==
  \A b \in BenchIdx : files[MarkerPath(b)].exists => hist.doneIn[b] # 0

\* C10: main never aborts in the comparison of a benchmark because a run of
\* it was killed: with the output of every run that was not killed in
\* place, read_originals does not raise.
C10_KillNonFatal ==
  ~(/\ pc = "crashed"
    /\ hist.abort = "read_originals"
    /\ hist.killed # {}
    /\ \A k \in {1, 2} \ hist.killed : dirs[OutDirOf(i, k)].info.exists)

\* C11: a failure of the statistics tool (an error exit, no output, or the
\* tool not being executable) never makes main abort.
C11_StatsToolNonFatal ==
  ~(pc = "crashed" /\ hist.abort = "stats_exec")

\* C12: KLEE.run returns normally whatever the exit status of the child: once
\* the child has exited on its own, the run is neither killed nor does it
\* abort main, and main goes on to its next step (the second run after the
\* first, the comparison after the second).
C12_ExitStatusIgnored ==
  (returncode.reaped /\ returncode.code \in ExitCodes) =>
    \/ pc = "wait" /\ wait_timeout_returns(Proc) /\ hist.abort = "none"
    \/ LET k == IF pc = "command" THEN 1 ELSE 2
       IN  /\ pc = AfterRun(k).pc
           /\ cfg = AfterRun(k).cfg
           /\ k \in hist.returned
           /\ k \notin hist.killed
           /\ hist.abort = "none"

\* Both runs of a benchmark ended with an error exit status and main is at
\* the comparison, the second run's status not yet dropped.
C12_Witness ==
  /\ pc = "compare"
  /\ returncode = Exited(1)
  /\ hist.returned = {1, 2}
  /\ hist.killed = {}
  /\ hist.abort = "none"

\* C13: a failure of a filesystem step of KLEE.command is fatal: main aborts,
\* no child is launched for that run or for any later benchmark, the
\* benchmark is not compared and its artifact is left as the loop found it;
\* and whenever a child is about to be launched the sandbox exists and is
\* empty.
C13_SetupFailureFatal ==
  /\ hist.abort = "setup" =>
       /\ pc = "crashed"
       /\ children = {}
       /\ cfg \notin hist.started
       /\ \A b \in BenchIdx : b > i => hist.launched[b] = 0
       /\ hist.compared[i] = 0
       /\ hist.doneIn[i] # pass
       /\ files[ArtifactPath(differ, i)] = hist.seen[i].art
  /\ pc = "popen" => sandbox = EmptySandbox

\* The setup of the second run of a benchmark failed, after the first run
\* returned, leaving the first run's file in the sandbox.
C13_Witness ==
  /\ hist.abort = "setup"
  /\ pc = "crashed"
  /\ cfg = 2
  /\ 1 \in hist.returned
  /\ sandbox.files # {}

\* The symbolic-parameter tokens of a built command: what follows the
\* benchmark path.
SymTokensOf(k) ==
  SubSeq(commands[k], Len(commands[k]) - Len(sym_flags(benchmarks[i].name)) + 1,
         Len(commands[k]))

DefaultSymTokens ==
  <<"--sym-args 0 1 10", "--sym-args 0 2 2", "--sym-files 1 8",
    "--sym-stdin 8", "--sym-stdout">>

\* C14: the profile lookup never fails; in the command KLEE.command has just
\* returned (a child is about to be launched), for a benchmark name without a
\* specific profile (foo) the symbolic-parameter tokens of the command are
\* those of the default profile, for one with a specific profile (dd) they
\* are that profile's tokens, and for every tool name the token list ends
\* with --sym-stdout.
C14_SymbolicFallback ==
  /\ \A k \in {1, 2} :
       (pc = "popen" /\ commands[k] # <<>>) =>
         LET path == benchmarks[i].path
             toks == SymTokensOf(k)
         IN  /\ commands[k][Len(commands[k]) - Len(toks)] = path
             /\ benchmarks[i].name = "foo.bc" => toks = DefaultSymTokens
             /\ benchmarks[i].name = "dd.bc" =>
                  toks = <<"--sym-args 0 3 10", "--sym-files 1 8",
                           "--sym-stdin 8", "--sym-stdout">>
             /\ toks[Len(toks)] = "--sym-stdout"
  /\ pc = "popen" =>
       \A n \in SYM_ARGS_KEYS \cup {"foo", "ls", ""} :
         LET toks == argument_list(SYM_ARGS(n))
         IN  /\ toks[Len(toks)] = "--sym-stdout"
             /\ n \notin SYM_ARGS_KEYS => toks = DefaultSymTokens
             /\ n = "expr" => toks = <<"--sym-args 0 1 10", "--sym-args 0 3 2",
                                       "--sym-stdout">>

\* Both commands of the benchmark without a specific profile have been built
\* and its second run is about to be launched.
C14_Witness ==
  /\ pc = "popen"
  /\ cfg = 2
  /\ benchmarks[i].name = "foo.bc"
  /\ commands[1] # <<>>
  /\ SymTokensOf(2) = DefaultSymTokens

\* C15: the symbolic-parameter profile table is never modified: after any
\* sequence of command constructions its key set is the one it had at
\* process start.
C15_TableImmutable == sym_args = SYM_ARGS_KEYS

\* C16: whenever KLEE.command has returned (a child is about to be launched),
\* the command built for a (benchmark, configuration) is always the
\* same token sequence: the baseline flags, the 19th and last of which is the
\* output-directory flag of the configuration, then the configuration's
\* extra flags in order, then the benchmark path, then the symbolic-parameter
\* tokens. The two configurations' commands for a benchmark agree on the
\* first 18 baseline flags and on everything from the benchmark path on.
C16_CommandOrdered ==
  /\ \A k \in {1, 2} :
       (pc = "popen" /\ commands[k] # <<>>) =>
         LET c == commands[k]
             n == Len(klee(k).flags)
         IN  /\ c = command(klee(k), benchmarks[i])
             /\ Len(c) = 19 + n + 1 + Len(sym_flags(benchmarks[i].name))
             /\ c[1] = "/home/columpio/klee/build-mydev/bin/klee"
             /\ c[9] = "--env-file=/home/columpio/coreutils/obj-llvm/src/test.env"
             /\ c[10] = "--run-in-dir=/tmp/sandbox"
             /\ c[12] = "--max-solver-time=15s"
             /\ c[13] = "--max-time=60"
             /\ c[19] = "--output-dir=" \o OutDirOf(i, k)
             /\ SubSeq(c, 20, 19 + n) = klee(k).flags
             /\ c[20 + n] = benchmarks[i].path
             /\ SubSeq(c, 21 + n, Len(c)) = sym_flags(benchmarks[i].name)
  /\ (pc = "popen" /\ commands[1] # <<>> /\ commands[2] # <<>>) =>
       /\ SubSeq(commands[1], 1, 18) = SubSeq(commands[2], 1, 18)
       /\ commands[1][19] # commands[2][19]
       /\ commands[1][20] = "--disable-blacklist"
       /\ SubSeq(commands[1], 21, Len(commands[1]))
            = SubSeq(commands[2], 20, Len(commands[2]))

\* In a second execution of main both commands of the first benchmark have
\* been built again.
C16_Witness ==
  /\ pass = 2
  /\ i = 1
  /\ pc = "popen"
  /\ commands[1] # <<>>
  /\ commands[2] # <<>>

\* C17: a pass of main that meets no fatal error ends with the corpus
\* exhausted, provided every killed child exits. While it runs, the benchmarks
\* reached are exactly those before the current one (and the current one once
\* its body has begun), so none is reordered or revisited. At the end every
\* benchmark was reached and has its diff artifact: either it was there and
\* the benchmark was skipped, or both runs and one comparison were made and
\* it was written in this pass.
C17_PassTerminates ==
  /\ [](Running =>
          \A b \in BenchIdx :
            hist.seen[b].reached <=> (b < i \/ (b = i /\ pc # "loop")))
  /\ [](pc = "done" =>
          \A b \in BenchIdx :
            /\ hist.seen[b].reached
            /\ files[ArtifactPath(differ, b)].exists
            /\ \/ /\ hist.seen[b].skipped
                  /\ hist.seen[b].art.exists
                  /\ hist.launched[b] = 0
                  /\ hist.compared[b] = 0
               \/ /\ ~hist.seen[b].skipped
                  /\ hist.launched[b] = 2
                  /\ hist.compared[b] = 1
                  /\ hist.doneIn[b] = pass)
  /\ (Running ~> (pc = "done" \/ pc = "crashed"))

\* A second pass ended: it skipped the first benchmark, whose artifact an
\* earlier pass left, and ran and compared the second one.
C17_Witness ==
  /\ pc = "done"
  /\ pass = 2
  /\ hist.seen[1].skipped
  /\ ~hist.seen[2].skipped
  /\ hist.doneIn[2] = 2

\* The number a two-digit field of the message shows.
Digit(ch) == CHOOSE d \in 0..9 : ToString(d) = ch
Field(str, at) ==
  10 * Digit(SubSeq(str, at, at)) + Digit(SubSeq(str, at + 1, at + 1))

\* The time, in seconds, that a message "HH hours, MM minutes, SS seconds"
\* reports.
ReportedSeconds(str) ==
  3600 * Field(str, 1) + 60 * Field(str, 11) + Field(str, 23)

\* C18: the estimate reported before a benchmark that is run equals
\* benchmarks_remaining * MAX_TIME * 2, and the reported worst-case bound
\* equals that estimate * WAIT_UNTIL_KILL_SCALE.
C18_EstimateReported ==
  printed # NothingPrinted =>
    /\ ReportedSeconds(printed.estimated)
         = benchmarks_left * MAX_TIME * 2
    /\ ReportedSeconds(printed.max)
         = benchmarks_left * MAX_TIME * 2 * WAIT_UNTIL_KILL_SCALE

\* A step taken between the call of KLEE.command and the return of KLEE.run
\* keeps the other output directories and the artifacts.
RunFrameStep ==
  pc \in {"command", "popen", "wait", "killwait"} =>
    /\ \A b \in BenchIdx, k \in {1, 2} :
         <<b, k>> # <<i, cfg>> =>
           dirs'[OutDirOf(b, k)] = dirs[OutDirOf(b, k)]
    /\ files' = files

\* C19: while a run is being set up and executed (from the call of
\* KLEE.command to the return of KLEE.run), every step leaves unchanged the
\* output directory of every other (benchmark, configuration) pair and every
\* diff artifact; only the run's own output directory and the sandbox may
\* change. So the second run never destroys what the first run left.
C19_RunFrame == [][RunFrameStep]_vars

\* The second run of a benchmark has returned, having written its output,
\* and the first run's output is still there for the comparison.
C19_Witness ==
  /\ pc = "compare"
  /\ hist.returned = {1, 2}
  /\ dirs[OutDirOf(i, 1)].info.exists
  /\ dirs[OutDirOf(i, 1)].info.lines # <<>>
  /\ dirs[OutDirOf(i, 2)].info.exists
  /\ dirs[OutDirOf(i, 2)].info.lines # <<>>
  /\ OutDirOf(i, 1) # OutDirOf(i, 2)

\* C20: when the two line sequences save_diff compared for a benchmark were
\* identical (both empty included), the artifact exists and is empty, and a
\* later pass that reaches the benchmark skips it without launching anything.
C20_EmptyDiffIsDone ==
  \A b \in BenchIdx :
    hist.written[b].same =>
      /\ files[ArtifactPath(differ, b)].exists
      /\ files[ArtifactPath(differ, b)].lines = <<>>
      /\ (hist.seen[b].reached /\ hist.doneIn[b] # pass) =>
           /\ hist.seen[b].skipped
           /\ hist.launched[b] = 0
           /\ hist.compared[b] = 0

\* A second pass has skipped the first benchmark, whose two sequences were
\* identical when an earlier pass compared them and whose artifact is empty.
C20_Witness ==
  /\ pass = 2
  /\ hist.doneIn[1] = 1
  /\ hist.written[1].same
  /\ hist.seen[1].reached
  /\ hist.seen[1].skipped
  /\ files[ArtifactPath(differ, 1)] = File(<<>>)

====
